---- MODULE Spec2Model ----
(***************************************************************************)
(* Model of lib/ansible/modules/crypto/openssl_csr.py: the module that     *)
(* reconciles a Certificate Signing Request file with a declared state.    *)
(*                                                                         *)
(* Text is modelled as a sequence of tokens.  A token is either one of the *)
(* separator characters "," and " ", or an indivisible piece of text such  *)
(* as the prefix "DNS:" or a host name "a".  Python values that may be     *)
(* None are tagged records [t, v]: t is "none", "str" or "list".           *)
(*                                                                         *)
(* The interpreter is Python 2: generate() writes the bytes of             *)
(* dump_certificate_request to a text-mode file and __init__ deletes from  *)
(* a dict while walking its items(), both of which only Python 2 accepts.  *)
(* The parent directory of the path exists, the private key loads and the  *)
(* path is writable; digest, version and privatekey_path are not part of   *)
(* the state.                                                              *)
(***************************************************************************)
EXTENDS Integers, Sequences, FiniteSets, TLC

VARIABLES params, csr, pc, diff_found, result, fs, fs0, wrote

vars == <<params, csr, pc, diff_found, result, fs, fs0, wrote>>

(***************************************************************************)
(* Bounds of the model.                                                    *)
(***************************************************************************)
\* longest declared subjectAltName string (in tokens) of the builder runs
MaxSanLen == 5
\* longest declared subjectAltName string (in tokens) of the reconciliation runs
MaxRunSanLen == 2
\* most subjectAltName entries of a CSR found on disk in the diff runs
MaxDiffNames == 2

Procs == {1, 2}

(***************************************************************************)
(* Python values and string operations.                                    *)
(***************************************************************************)
None == [t |-> "none", v |-> <<>>]

Str(s) == [t |-> "str", v |-> s]

List(l) == [t |-> "list", v |-> l]

\* Python truth value of None, a string or a list
Truthy(x) == x.t # "none" /\ x.v # <<>>

\* '%s' % x
Format(x) == IF x.t = "none" THEN <<"None">> ELSE x.v

\* s.replace(' ', '')
StripSpaces(s) == SelectSeq(s, LAMBDA c : c # " ")

\* s.split(','): always at least one piece, '' included
RECURSIVE Split(_)
Split(s) ==
    IF \A i \in 1..Len(s) : s[i] # ","
    THEN <<s>>
    ELSE LET i == CHOOSE k \in 1..Len(s) : s[k] = "," /\ \A j \in 1..(k - 1) : s[j] # ","
         IN  <<SubSeq(s, 1, i - 1)>> \o Split(SubSeq(s, i + 1, Len(s)))

\* sep.join(l)
RECURSIVE Join(_, _)
Join(l, sep) ==
    IF l = <<>> THEN <<>>
    ELSE IF Len(l) = 1 THEN l[1]
    ELSE l[1] \o sep \o Join(Tail(l), sep)

\* x in l
In(x, l) == \E i \in 1..Len(l) : l[i] = x

\* l.count(x)
Count(x, l) == Cardinality({i \in 1..Len(l) : l[i] = x})

(***************************************************************************)
(* CertificateSigningRequest.__init__                                      *)
(***************************************************************************)
\* parameter name of each subject key
SubjectParam ==
    [C |-> "countryName", ST |-> "stateOrProvinceName", L |-> "localityName",
     O |-> "organizationName", OU |-> "organizationalUnitName",
     CN |-> "commonName", emailAddress |-> "emailAddress"]

SubjectKeys == DOMAIN SubjectParam

\* 'DNS:%s' % self.subject['CN']
DnsOfCommonName(p) == <<"DNS:">> \o Format(p.commonName)

\* a variant that puts the missing CN entry last instead of first
AppendCommonName(l, e) == IF In(e, l) THEN l ELSE l \o <<e>>

\* lines 204-205: the CN entry is put first unless the list holds it
InsertCommonName(l, e) == IF In(e, l) THEN l ELSE <<e>> \o l

\* lines 202-205: the SAN string becomes a list, with the CN entry put first
BuildSubjectAltName(p) ==
    IF Truthy(p.subjectAltName)
    THEN List(InsertCommonName(Split(StripSpaces(p.subjectAltName.v)), DnsOfCommonName(p)))
    ELSE p.subjectAltName

\* lines 192-200 and 207-209: the subject keeps the keys whose value is not None
BuildSubject(p) ==
    LET keys == {k \in SubjectKeys : p[SubjectParam[k]].t # "none"}
    IN  [k \in keys |-> p[SubjectParam[k]].v]

NewCsr(p) ==
    [subject |-> BuildSubject(p),
     subjectAltName |-> BuildSubjectAltName(p),
     changed |-> TRUE]

\* the object before the constructor has run
NoCsr == [subject |-> <<>>, subjectAltName |-> None, changed |-> FALSE]

(***************************************************************************)
(* The file at the path and the pyOpenSSL objects read from and written    *)
(* to it.  A file is missing, holds bytes that are no PEM request, or      *)
(* holds a request: its subject components and its extensions.  A          *)
(* subjectAltName extension holds general names [type, val].               *)
(***************************************************************************)
DefaultMode == "0644"

NoFile == [kind |-> "none", subject |-> <<>>, exts |-> <<>>, mode |-> ""]

CorruptFile(m) == [kind |-> "corrupt", subject |-> <<>>, exts |-> <<>>, mode |-> m]

CsrFile(subject, exts, m) == [kind |-> "csr", subject |-> subject, exts |-> exts, mode |-> m]

\* os.path.exists(self.path)
Exists(file) == file.kind # "none"

SanExtension(names) == [name |-> "subjectAltName", names |-> names]

OtherExtension == [name |-> "basicConstraints", names |-> <<>>]

\* values OpenSSL accepts after "IP:" and after "DNS:"
AddrTokens == {"1"}

NameTokens == {"a", "b", "1", "None"}

\* one "type:value" entry of the extension's configuration text
EntryValid(e) ==
    /\ Len(e) = 2
    /\ \/ e[1] = "DNS:" /\ e[2] \in NameTokens
       \/ e[1] = "IP:" /\ e[2] \in AddrTokens

EntryName(e) == [type |-> IF e[1] = "DNS:" THEN "DNS" ELSE "IP", val |-> e[2]]

\* crypto.X509Extension("subjectAltName", False, text): whether OpenSSL takes the text
SanTextValid(text) == \A i \in 1..Len(Split(text)) : EntryValid(Split(text)[i])

\* crypto.X509Extension("subjectAltName", False, text): the extension built
SanTextExtension(text) ==
    SanExtension([i \in 1..Len(Split(text)) |-> EntryName(Split(text)[i])])

\* X509Extension.__str__ of one general name: OpenSSL prints an address as "IP Address:"
NameStr(n) ==
    IF n.type = "DNS" THEN <<"DNS:", n.val>> ELSE <<"IP", " ", "Address:", n.val>>

\* X509Extension.__str__ of a subjectAltName extension: the names joined by ", "
ExtStr(ext) == Join([i \in 1..Len(ext.names) |-> NameStr(ext.names[i])], <<",", " ">>)

(***************************************************************************)
(* What a call gives back: a value, or an exception that leaves the call.  *)
(***************************************************************************)
Returned(v) == [raised |-> "", value |-> v]

Raised(e) == [raised |-> e, value |-> FALSE]

NoOutcome == [raised |-> "not called", value |-> FALSE]

(***************************************************************************)
(* CertificateSigningRequest.check_diff                                    *)
(***************************************************************************)
\* lines 218-220
SubjectDiffers(subject, components) ==
    \E k \in DOMAIN subject : k \in DOMAIN components /\ subject[k] # components[k]

HasSan(exts) == \E i \in 1..Len(exts) : exts[i].name = "subjectAltName"

\* line 227: the first extension whose short name is subjectAltName
FirstSan(exts) ==
    exts[CHOOSE i \in 1..Len(exts) :
            /\ exts[i].name = "subjectAltName"
            /\ \A j \in 1..(i - 1) : exts[j].name # "subjectAltName"]

\* lines 227-235
SanDiffers(san, exts) ==
    IF ~HasSan(exts) THEN Raised("StopIteration")
    ELSE LET current == Split(StripSpaces(ExtStr(FirstSan(exts))))
         IN  IF san.t = "none" THEN Raised("TypeError")
             ELSE IF Len(current) # Len(san.v) THEN Returned(TRUE)
             ELSE Returned(\E i \in 1..Len(san.v) : ~In(san.v[i], current))

\* a variant that takes a file it cannot parse for a request to replace
ReadAndIgnoreParseError(self, file) ==
    IF file.kind = "corrupt" THEN Returned(TRUE)
    ELSE IF SubjectDiffers(self.subject, file.subject) THEN Returned(TRUE)
    ELSE IF file.exts = <<>> THEN Returned(Truthy(self.subjectAltName))
    ELSE SanDiffers(self.subjectAltName, file.exts)

\* lines 213-235, for a file that exists and a run that is not forced
ReadAndCompare(self, file) ==
    IF file.kind = "corrupt" THEN Raised("crypto.Error")
    ELSE IF SubjectDiffers(self.subject, file.subject) THEN Returned(TRUE)
    ELSE IF file.exts = <<>> THEN Returned(Truthy(self.subjectAltName))
    ELSE SanDiffers(self.subjectAltName, file.exts)

\* lines 211-237
check_diff(self, force, file) ==
    IF Exists(file) /\ ~force THEN ReadAndCompare(self, file) ELSE Returned(FALSE)

(***************************************************************************)
(* CertificateSigningRequest.generate, remove and dump                     *)
(***************************************************************************)
\* lines 245-260: the request built in memory from the declared state
NewRequest(self, m) ==
    CsrFile(self.subject,
            IF Truthy(self.subjectAltName)
            THEN <<SanTextExtension(Join(self.subjectAltName.v, <<",">>))>>
            ELSE <<>>,
            m)

\* line 253: OpenSSL refuses a subjectAltName text it cannot parse
RequestBuilds(self) ==
    Truthy(self.subjectAltName) => SanTextValid(Join(self.subjectAltName.v, <<",">>))

\* lines 263-265: open(path, 'w') keeps the mode of a file that is there
WriteFile(self, file) == NewRequest(self, IF Exists(file) THEN file.mode ELSE DefaultMode)

\* lines 272-274: module.set_fs_attributes_if_different with the mode asked for
AttributesDiffer(p, file) == p.mode.t # "none" /\ file.mode # p.mode.v[1]

SetFsAttributes(p, file) ==
    IF AttributesDiffer(p, file) THEN [file EXCEPT !.mode = p.mode.v[1]] ELSE file

\* line 244
MustGenerate(p, file, diff) == ~Exists(file) \/ p.force \/ diff

\* generate(): what it raises, the object, the file and whether the path was written
generate(self, p, file) ==
    LET d == check_diff(self, p.force, file)
    IN  IF d.raised # ""
        THEN [raised |-> d.raised, diff |-> d, self |-> self, file |-> file, wrote |-> FALSE]
        ELSE IF MustGenerate(p, file, d.value)
        THEN IF ~RequestBuilds(self)
             THEN [raised |-> "crypto.Error", diff |-> d, self |-> self, file |-> file,
                   wrote |-> FALSE]
             ELSE [raised |-> "", diff |-> d, self |-> self,
                   file |-> SetFsAttributes(p, WriteFile(self, file)), wrote |-> TRUE]
        ELSE [raised |-> "", diff |-> d,
              self |-> [self EXCEPT !.changed = AttributesDiffer(p, file)],
              file |-> SetFsAttributes(p, file), wrote |-> FALSE]

\* remove(): os.remove, where "no such file" only clears the changed flag
remove(self, file) ==
    IF Exists(file)
    THEN [self |-> self, file |-> NoFile]
    ELSE [self |-> [self EXCEPT !.changed = FALSE], file |-> file]

\* line 294: ','.join(self.subjectAltName) needs a string or a list
Joinable(self) == self.subjectAltName.t # "none"

\* the record handed to exit_json, or the failure of the run
NoResult == [status |-> "none", raised |-> "", subject |-> <<>>, subjectAltName |-> <<>>,
             changed |-> FALSE]

Failure(e) == [status |-> "failed", raised |-> e, subject |-> <<>>, subjectAltName |-> <<>>,
               changed |-> FALSE]

\* dump(), with the changed flag the caller leaves in it
dump(self, changed) ==
    IF ~Joinable(self) THEN Failure("TypeError")
    ELSE [status |-> "ok", raised |-> "", subject |-> self.subject,
          subjectAltName |-> IF self.subjectAltName.t = "list"
                             THEN Join(self.subjectAltName.v, <<",">>)
                             ELSE self.subjectAltName.v,
          changed |-> changed]

(***************************************************************************)
(* main(): one action per step of a run.  A run is idle, then constructed  *)
(* (the object is built), then for the runs that act on the file acted,    *)
(* and ends done (exit_json) or failed (fail_json or an exception).        *)
(***************************************************************************)
Finished(p) == pc[p] \in {"done", "failed"}

\* lines 302-330: the parameters are bound and the object is constructed
Invoke(p, st, force, check) ==
    /\ pc[p] = "idle"
    /\ params' = [params EXCEPT ![p].state = st, ![p].force = force, ![p].check_mode = check]
    /\ csr' = [csr EXCEPT ![p] = NewCsr(params'[p])]
    /\ fs0' = [fs0 EXCEPT ![p] = fs]
    /\ pc' = [pc EXCEPT ![p] = "constructed"]
    /\ UNCHANGED <<diff_found, result, fs, wrote>>

\* lines 334-338: present in check mode
PresentCheck(p) ==
    /\ pc[p] = "constructed"
    /\ params[p].state = "present" /\ params[p].check_mode
    /\ LET d == check_diff(csr[p], params[p].force, fs)
           r == dump(csr[p], MustGenerate(params[p], fs, d.value))
       IN  /\ diff_found' = [diff_found EXCEPT ![p] = IF Joinable(csr[p]) THEN d ELSE @]
           /\ result' = [result EXCEPT ![p] =
                  IF r.status = "failed" THEN r
                  ELSE IF d.raised # "" THEN Failure(d.raised) ELSE r]
           /\ pc' = [pc EXCEPT ![p] = IF result'[p].status = "ok" THEN "done" ELSE "failed"]
    /\ UNCHANGED <<params, csr, fs, fs0, wrote>>

\* lines 340-344: present, the file is reconciled
Generate(p) ==
    /\ pc[p] = "constructed"
    /\ params[p].state = "present" /\ ~params[p].check_mode
    /\ LET g == generate(csr[p], params[p], fs)
       IN  /\ diff_found' = [diff_found EXCEPT ![p] = g.diff]
           /\ csr' = [csr EXCEPT ![p] = g.self]
           /\ fs' = g.file
           /\ wrote' = [wrote EXCEPT ![p] = g.wrote]
           /\ result' = [result EXCEPT ![p] = IF g.raised # "" THEN Failure(g.raised) ELSE @]
           /\ pc' = [pc EXCEPT ![p] = IF g.raised # "" THEN "failed" ELSE "acted"]
    /\ UNCHANGED <<params, fs0>>

\* lines 348-351: absent in check mode
AbsentCheck(p) ==
    /\ pc[p] = "constructed"
    /\ params[p].state = "absent" /\ params[p].check_mode
    /\ result' = [result EXCEPT ![p] = dump(csr[p], Exists(fs))]
    /\ pc' = [pc EXCEPT ![p] = IF result'[p].status = "ok" THEN "done" ELSE "failed"]
    /\ UNCHANGED <<params, csr, diff_found, fs, fs0, wrote>>

\* lines 353-357: absent, the file is removed
Remove(p) ==
    /\ pc[p] = "constructed"
    /\ params[p].state = "absent" /\ ~params[p].check_mode
    /\ LET r == remove(csr[p], fs)
       IN  /\ csr' = [csr EXCEPT ![p] = r.self]
           /\ fs' = r.file
    /\ pc' = [pc EXCEPT ![p] = "acted"]
    /\ UNCHANGED <<params, diff_found, result, fs0, wrote>>

\* lines 359-361: the result is assembled and handed out
Exit(p) ==
    /\ pc[p] = "acted"
    /\ result' = [result EXCEPT ![p] = dump(csr[p], csr[p].changed)]
    /\ pc' = [pc EXCEPT ![p] = IF result'[p].status = "ok" THEN "done" ELSE "failed"]
    /\ UNCHANGED <<params, csr, diff_found, fs, fs0, wrote>>

\* check_diff applied on its own to the object and the file
CheckDiff(p) ==
    /\ pc[p] = "constructed"
    /\ diff_found[p] = NoOutcome
    /\ diff_found' = [diff_found EXCEPT ![p] = check_diff(csr[p], params[p].force, fs)]
    /\ UNCHANGED <<params, csr, pc, result, fs, fs0, wrote>>

(***************************************************************************)
(* The inputs the runs are given.                                          *)
(***************************************************************************)
SanTokens == {"DNS:", "IP:", "a", "1", ",", " "}

Strings(n) == UNION {[1..k -> SanTokens] : k \in 0..n}

CommonNames == {None, Str(<<"a">>), Str(<<"b">>)}

Organizations == {None, Str(<<"x">>)}

ModesAsked == {None, Str(<<"0600">>)}

FileModes == {DefaultMode, "0600"}

\* module.params as AnsibleModule binds them; required_one_of has passed
Params(cn, o, san, mode) ==
    [state |-> "present", force |-> FALSE, check_mode |-> FALSE,
     subjectAltName |-> san, mode |-> mode,
     countryName |-> None, stateOrProvinceName |-> None, localityName |-> None,
     organizationName |-> o, organizationalUnitName |-> None,
     commonName |-> cn, emailAddress |-> None]

\* line 321: at least one of commonName and subjectAltName is given
RequiredOneOf(cn, san) == cn.t # "none" \/ san.t # "none"

\* the declared strings of the reconciliation runs: those OpenSSL can take
RunSans ==
    {None} \cup {Str(s) : s \in {x \in Strings(MaxRunSanLen) :
                                    x = <<>> \/ SanTextValid(StripSpaces(x))}}

RunParams ==
    {Params(cn, None, san, m) : cn \in CommonNames, san \in RunSans, m \in ModesAsked}

ValidRunParams == {d \in RunParams : RequiredOneOf(d.commonName, d.subjectAltName)}

\* files on the path: none, no request at all, a request an earlier run of the
\* module wrote, or a request made by another tool with other extensions
DnsName(v) == [type |-> "DNS", val |-> v]

IpName(v) == [type |-> "IP", val |-> v]

ForeignFiles ==
    {CsrFile([CN |-> <<"a">>], <<OtherExtension>>, DefaultMode),
     CsrFile([CN |-> <<"a">>], <<OtherExtension, SanExtension(<<DnsName("a")>>)>>, DefaultMode)}

RunFiles ==
    {NoFile, CorruptFile(DefaultMode)}
    \cup {NewRequest(NewCsr(d), m) : d \in ValidRunParams, m \in FileModes}
    \cup ForeignFiles

InitWith(d, file) ==
    /\ params = [p \in Procs |-> d]
    /\ csr = [p \in Procs |-> NoCsr]
    /\ pc = [p \in Procs |-> "idle"]
    /\ diff_found = [p \in Procs |-> NoOutcome]
    /\ result = [p \in Procs |-> NoResult]
    /\ fs = file
    /\ fs0 = [p \in Procs |-> NoFile]
    /\ wrote = [p \in Procs |-> FALSE]

(***************************************************************************)
(* Spec: runs of the module against one path, one after the other, each    *)
(* with the same declared state and its own state, force and check mode.   *)
(***************************************************************************)
Init == \E d \in ValidRunParams, file \in RunFiles : InitWith(d, file)

\* a run starts when no other run is under way; run 2 follows run 1
InvokeInTurn(p, st, force, check) ==
    /\ p = 1 \/ Finished(1)
    /\ \A q \in Procs \ {p} : pc[q] = "idle" \/ Finished(q)
    /\ Invoke(p, st, force, check)

Next ==
    \E p \in Procs :
        \/ \E st \in {"present", "absent"}, force \in BOOLEAN, check \in BOOLEAN :
              InvokeInTurn(p, st, force, check)
        \/ PresentCheck(p)
        \/ Generate(p)
        \/ AbsentCheck(p)
        \/ Remove(p)
        \/ Exit(p)

Spec == Init /\ [][Next]_vars

(***************************************************************************)
(* SpecConc: two runs with state=absent against the same path, their       *)
(* steps interleaved in every order.                                       *)
(***************************************************************************)
NextConc == \E p \in Procs : Invoke(p, "absent", FALSE, FALSE) \/ Remove(p) \/ Exit(p)

SpecConc == Init /\ [][NextConc]_vars

(***************************************************************************)
(* SpecBuilder: the constructor applied to every declared subjectAltName   *)
(* string of up to MaxSanLen tokens and every commonName.                  *)
(***************************************************************************)
BuilderSans == {None} \cup {Str(s) : s \in Strings(MaxSanLen)}

InitBuilder ==
    \E cn \in CommonNames, san \in BuilderSans :
        /\ RequiredOneOf(cn, san)
        /\ InitWith(Params(cn, None, san, None), NoFile)

NextBuilder == Invoke(1, "present", FALSE, FALSE)

SpecBuilder == InitBuilder /\ [][NextBuilder]_vars

(***************************************************************************)
(* SpecDiff: check_diff applied to every pair of a declared state and a    *)
(* request on disk.                                                        *)
(***************************************************************************)
DiffEntries == {<<"DNS:", "a">>, <<"DNS:", "b">>, <<"IP:", "1">>}

DiffNames == {DnsName("a"), DnsName("b"), IpName("1")}

SeqsUpTo(S, n) == UNION {[1..k -> S] : k \in 0..n}

DiffSans ==
    {None} \cup {Str(Join(l, <<",">>)) : l \in SeqsUpTo(DiffEntries, MaxDiffNames)}

DiffSubjects ==
    {<<>>, [CN |-> <<"a">>], [CN |-> <<"b">>], [O |-> <<"x">>], [O |-> <<"y">>],
     [CN |-> <<"a">>, O |-> <<"x">>], [CN |-> <<"a">>, O |-> <<"y">>],
     [CN |-> <<"b">>, O |-> <<"x">>]}

DiffExtensions ==
    {<<>>, <<OtherExtension>>}
    \cup {<<SanExtension(l)>> : l \in SeqsUpTo(DiffNames, MaxDiffNames) \ {<<>>}}
    \cup {<<OtherExtension, SanExtension(l)>> : l \in SeqsUpTo(DiffNames, MaxDiffNames) \ {<<>>}}

InitDiff ==
    \E cn \in CommonNames, o \in Organizations, san \in DiffSans,
       subject \in DiffSubjects, exts \in DiffExtensions :
        /\ RequiredOneOf(cn, san)
        /\ InitWith(Params(cn, o, san, None), CsrFile(subject, exts, DefaultMode))

NextDiff == Invoke(1, "present", FALSE, FALSE) \/ CheckDiff(1)

SpecDiff == InitDiff /\ [][NextDiff]_vars

(***************************************************************************)
(* Properties.                                                             *)
(***************************************************************************)
\* a run that acts on the file, not in check mode
RealRunOf(p, st) == params[p].state = st /\ ~params[p].check_mode

\* run p has ended and no later run has touched the file since
Ended(p) == Finished(p) /\ \A q \in Procs : q > p => pc[q] = "idle"

\* lines 340-361 as one step: what a run not in check mode reports from a file
RealRun(d, file) ==
    IF d.state = "present"
    THEN LET g == generate(NewCsr(d), d, file)
         IN  IF g.raised # "" THEN Failure(g.raised) ELSE dump(g.self, g.self.changed)
    ELSE LET r == remove(NewCsr(d), file)
         IN  dump(r.self, r.self.changed)

\* C1: idempotence of present: after a present run (not check mode) that ended
\* without error, a second present run with the same declared state and
\* force=false reports changed=false, writes nothing and leaves the file as is.
C1_PresentIsIdempotent ==
    ( /\ RealRunOf(1, "present") /\ pc[1] = "done"
      /\ RealRunOf(2, "present") /\ ~params[2].force /\ Finished(2) )
    => /\ result[2].status = "ok"
       /\ ~result[2].changed
       /\ ~wrote[2]
       /\ fs = fs0[2]

\* C2: decision rule of present (not check mode, no file mode asked for, the
\* diff has answered): the path is written and changed=true is reported if and
\* only if the file was missing, or force, or the diff found a mismatch;
\* otherwise nothing is written and changed=false is reported.
C2_PresentDecisionRule ==
    \A p \in Procs :
        ( /\ RealRunOf(p, "present") /\ Ended(p)
          /\ params[p].mode.t = "none"
          /\ diff_found[p].raised = "" )
        => /\ result[p].status = "ok"
           /\ wrote[p] = MustGenerate(params[p], fs0[p], diff_found[p].value)
           /\ result[p].changed = wrote[p]
           /\ ~wrote[p] => fs = fs0[p]

\* C3: a check-mode run leaves the file alone, and the changed flag it reports
\* is the one a run not in check mode reports from the same file.
C3_CheckModeAgrees ==
    \A p \in Procs :
        (params[p].check_mode /\ Ended(p))
        => /\ fs = fs0[p]
           /\ ~wrote[p]
           /\ LET real == RealRun(params[p], fs0[p])
              IN  result[p].status = "ok"
                  => real.status = "ok" /\ real.changed = result[p].changed

\* C4: an absent run (alone, not check mode) never fails, reports changed=true
\* exactly when the file existed at its start, and leaves no file; so a second
\* absent run right after it reports changed=false.
C4_AbsentRun ==
    \A p \in Procs :
        (RealRunOf(p, "absent") /\ Ended(p))
        => /\ result[p].status = "ok"
           /\ result[p].changed = Exists(fs0[p])
           /\ ~Exists(fs)

\* C5: a present run that declares only a commonName, against a path with no
\* file, creates the file and reports changed=true, subject {CN: commonName}
\* and subjectAltName "DNS:<commonName>".
C5_CommonNameOnly ==
    \A p \in Procs :
        ( /\ RealRunOf(p, "present") /\ Ended(p)
          /\ params[p].subjectAltName.t = "none"
          /\ params[p].commonName.t # "none"
          /\ ~Exists(fs0[p]) )
        => /\ result[p].status = "ok"
           /\ result[p].changed
           /\ result[p].subject = [CN |-> params[p].commonName.v]
           /\ result[p].subjectAltName = DnsOfCommonName(params[p])
           /\ fs.kind = "csr"

\* the entries of the declared string: spaces removed, split on commas
Declared(p) == Split(StripSpaces(params[p].subjectAltName.v))

Built(p) == pc[p] = "constructed" /\ Truthy(params[p].subjectAltName)

\* C6 as claimed: with commonName set, the built list has DNS:<commonName> as
\* its first entry and holds it exactly once.
C6_CommonNameFirstAndOnce ==
    (Built(1) /\ params[1].commonName.t # "none")
    => /\ csr[1].subjectAltName.v[1] = DnsOfCommonName(params[1])
       /\ Count(DnsOfCommonName(params[1]), csr[1].subjectAltName.v) = 1

\* C6 as amended: with commonName set, the built list holds DNS:<commonName>;
\* when the declared entries do not hold it, it is put first, exactly once, in
\* front of the declared entries; when they hold it, the list is the declared
\* entries as they are.
C6_CommonNamePresent ==
    (Built(1) /\ params[1].commonName.t # "none")
    => LET e == DnsOfCommonName(params[1])
           l == csr[1].subjectAltName.v
       IN  /\ csr[1].subjectAltName.t = "list"
           /\ In(e, l)
           /\ ~In(e, Declared(1)) => l[1] = e /\ Count(e, l) = 1 /\ Tail(l) = Declared(1)
           /\ In(e, Declared(1)) => l = Declared(1)

\* C6 witness: the declared string holds DNS:<commonName>, but not first
C6_Witness ==
    /\ Built(1) /\ params[1].commonName.t # "none"
    /\ In(DnsOfCommonName(params[1]), Declared(1))
    /\ Declared(1)[1] # DnsOfCommonName(params[1])
    /\ csr[1].subjectAltName.v = Declared(1)

ReferenceEntry(n) == IF n.type = "DNS" THEN <<"DNS:", n.val>> ELSE <<"IP:", n.val>>

\* the rules of the diff: subject first, then the subjectAltName lists
ReferenceDiff(self, file) ==
    LET desired == self.subjectAltName.v
    IN  IF SubjectDiffers(self.subject, file.subject) THEN TRUE
        ELSE IF ~HasSan(file.exts) THEN desired # <<>>
        ELSE LET names == FirstSan(file.exts).names
                 existing == [i \in 1..Len(names) |-> ReferenceEntry(names[i])]
             IN  \/ Len(existing) # Len(desired)
                 \/ \E i \in 1..Len(desired) : ~In(desired[i], existing)

\* C8: the diff always answers with a boolean, and the answer is the one the
\* rules give for the declared state and the request on disk.
C8_DiffIsTotal ==
    diff_found[1] # NoOutcome
    => /\ diff_found[1].raised = ""
       /\ diff_found[1].value = ReferenceDiff(csr[1], fs)

\* C9: the built list is the declared entries, with DNS:<commonName> in front
\* if and only if commonName is set and the entry is not among them.
C9_BuiltSanList ==
    Built(1)
    => csr[1].subjectAltName.v =
          IF params[1].commonName.t # "none" /\ ~In(DnsOfCommonName(params[1]), Declared(1))
          THEN <<DnsOfCommonName(params[1])>> \o Declared(1)
          ELSE Declared(1)

\* C10: two absent runs interleaved against a path that holds a file: neither
\* fails, no file is left, and exactly one of them reports changed=true.
C10_ConcurrentDeleters ==
    ( /\ \A p \in Procs : Finished(p)
      /\ \E p \in Procs : Exists(fs0[p]) )
    => /\ \A p \in Procs : result[p].status = "ok"
       /\ ~Exists(fs)
       /\ Cardinality({p \in Procs : result[p].changed}) = 1

====
